---- MODULE Spec2Model ----
(***************************************************************************)
(* A model of the nettest node: main.rs (the process, its stdin loop and   *)
(* the swarm it builds but never polls) and handler.rs (the command        *)
(* handler).  Strings are sequences of atoms: a word atom stands for a     *)
(* run of non-blank characters, SP for one space, NL for one line          *)
(* terminator.  "BIG" is a word of at least 65 KiB, the size at which the  *)
(* in-memory record store refuses a value.                                 *)
(*                                                                         *)
(* libp2p is a dependency of the program: its operations (get_record,      *)
(* put_record and the record store, add_address and the routing table) are *)
(* modelled where the code calls them, with the behaviour the library      *)
(* documents.  The two inject_event methods, which only a polled swarm     *)
(* calls, are driven by PolledSpec.                                        *)
(*                                                                         *)
(* Environment assumptions: the bytes on stdin are valid UTF-8, and the    *)
(* working directory and the standard streams are writable.                *)
(***************************************************************************)
EXTENDS Naturals, Sequences, FiniteSets, TLC

VARIABLES
    stdinKind,   \* what stdin is: "pipe" (file, pipe: end-of-input is final) or "tty"
    stdinBuf,    \* text written to stdin and not yet read by the process
    stdinEof,    \* "open", "ctrlD" (a terminal's end-of-input mark is pending), "closed"
    pc,          \* "running" (in the loop of main) or "panicked"
    kademlia,    \* swarm.kademlia: [store, queries, routing (the buckets)]
    netInbox,    \* discovery events the swarm would yield when polled
    stdout,      \* lines printed to standard output
    stderr,      \* lines printed to standard error
    outputLog,   \* content of the file output.log
    calls,       \* number of calls of handle_input_line made so far
    texts,       \* number of texts the environment has written to stdin
    linesIn,     \* number of lines in the input read so far
    argLines,    \* for each call of handle_input_line, the number of NL in its argument
    announced,   \* the identities in the discovery events handed to inject_event so far
    issuedWith   \* for each query, the peers of the routing table when it was started

vars == <<stdinKind, stdinBuf, stdinEof, pc, kademlia, netInbox, stdout, stderr,
          outputLog, calls, texts, linesIn, argLines, announced, issuedWith>>

\* ------------------------------------------------------------------ bounds
\* The most pieces, separated by single spaces, in one text written to stdin.
MaxTokens == 3
\* The most iterations of the loop of main, and the most texts written to stdin.
MaxCalls == 2

\* ------------------------------------------------------------------ strings
SP == "SP"
NL == "NL"

Range(s) == {s[i] : i \in 1..Len(s)}

\* The tokens the environment builds its input from (none holds a space).
Tokens ==
    {<<>>, <<"GET">>, <<"PUT">>, <<"a">>, <<"BIG">>, <<"a", NL>>}

RECURSIVE JoinSp(_)
\* The text made of the tokens ts, one space between two tokens.
JoinSp(ts) ==
    IF Len(ts) = 0 THEN <<>>
    ELSE IF Len(ts) = 1 THEN ts[1]
    ELSE ts[1] \o <<SP>> \o JoinSp(Tail(ts))

TextsOver(T) == {JoinSp(ts) : ts \in UNION {[1..n -> T] : n \in 1..MaxTokens}}

Texts == TextsOver(Tokens)

\* The texts typed in a terminal session: commands and arguments of ordinary size.
Commands == TextsOver({<<"GET">>, <<"PUT">>, <<"a">>, <<"a", NL>>})

\* The number of lines of a text, as a line reader counts them: one per
\* terminator, and one more for a last line that has no terminator.
NumLines(s) ==
    Cardinality({i \in 1..Len(s) : s[i] = NL})
        + (IF Len(s) > 0 /\ s[Len(s)] # NL THEN 1 ELSE 0)

NumNL(s) == Cardinality({i \in 1..Len(s) : s[i] = NL})

RECURSIVE Split(_)
\* line.split(" "): the pieces between single spaces, empty pieces included;
\* the empty string splits into one empty piece.
Split(s) ==
    IF SP \notin Range(s) THEN <<s>>
    ELSE LET i == CHOOSE j \in 1..Len(s) : s[j] = SP /\ \A k \in 1..(j-1) : s[k] # SP
         IN <<SubSeq(s, 1, i-1)>> \o Split(SubSeq(s, i+1, Len(s)))

\* ------------------------------------------------------------------ kademlia
QuorumOne == 1

Discoverable == {"p1"}

\* The identity of this node (main.rs:22-23) and the identities mDNS can
\* report: the node's own, and peers on the local network.
LocalPeerId == "local"

Peers == {"local", "p1", "p2", "p3", "p4"}

Addresses == {"addr1", "addr2"}

\* The routing table of Kademlia::new (main.rs:145) has one bucket for each
\* bit of a key, and a bucket holds at most KValue entries (256 and 20 in
\* libp2p, scaled down here).
NumBuckets == 3
KValue == 2

\* kbucket::Key::new(peer): the key of a peer is the hash of its identity; the
\* hash is a fixed table here, into the numbers of NumBuckets bits.
KeyOf == ("local" :> 5) @@ ("p1" :> 7) @@ ("p2" :> 1) @@ ("p3" :> 0) @@ ("p4" :> 3)

RECURSIVE Xor(_, _)
\* The bitwise exclusive or of two natural numbers.
Xor(a, b) ==
    IF a = 0 /\ b = 0 THEN 0
    ELSE (((a % 2) + (b % 2)) % 2) + (2 * Xor(a \div 2, b \div 2))

Distance(p, q) == Xor(KeyOf[p], KeyOf[q])

RECURSIVE BucketIndex(_)
\* The bucket of a distance d > 0: the i with 2^i <= d < 2^(i+1).
BucketIndex(d) == IF d <= 1 THEN 0 ELSE 1 + BucketIndex(d \div 2)

EmptyTable == [b \in 0..(NumBuckets - 1) |-> <<>>]

\* The peers that have an entry in the routing table.
KnownPeers(kad) ==
    UNION {{kad.routing[b][i].peer : i \in 1..Len(kad.routing[b])} :
              b \in DOMAIN kad.routing}

\* add_address without the look-up of the peer's entry: a peer that is
\* discovered again gets a second entry.
add_address_NoLookup(kad, peer, addr) ==
    IF peer = LocalPeerId THEN kad
    ELSE LET b == BucketIndex(Distance(LocalPeerId, peer))
             bucket == kad.routing[b]
         IN IF Len(bucket) >= KValue THEN kad
            ELSE [kad EXCEPT !.routing[b] =
                     Append(bucket, [peer |-> peer, addrs |-> {addr}])]

\* add_address without the refusal of the node's own identity.
add_address_OwnIdentity(kad, peer, addr) ==
    LET b == IF peer = LocalPeerId THEN 0
             ELSE BucketIndex(Distance(LocalPeerId, peer))
        bucket == kad.routing[b]
    IN IF \E i \in 1..Len(bucket) : bucket[i].peer = peer
       THEN [kad EXCEPT !.routing[b] =
                [i \in 1..Len(bucket) |->
                    IF bucket[i].peer = peer
                    THEN [bucket[i] EXCEPT !.addrs = @ \cup {addr}]
                    ELSE bucket[i]]]
       ELSE IF Len(bucket) >= KValue THEN kad
       ELSE [kad EXCEPT !.routing[b] =
                Append(bucket, [peer |-> peer, addrs |-> {addr}])]

\* kademlia.add_address(&peer_id, multiaddr), for a peer the node has no
\* connection to.  The node's own identity is refused; for a peer that has an
\* entry the address is added to the entry; a new peer is appended to its
\* bucket unless the bucket is full, and then the table is left as it was
\* (the call returns RoutingUpdate::Failed).
add_address(kad, peer, addr) ==
    IF peer = LocalPeerId THEN kad
    ELSE LET b == BucketIndex(Distance(LocalPeerId, peer))
             bucket == kad.routing[b]
         IN IF \E i \in 1..Len(bucket) : bucket[i].peer = peer
            THEN [kad EXCEPT !.routing[b] =
                     [i \in 1..Len(bucket) |->
                         IF bucket[i].peer = peer
                         THEN [bucket[i] EXCEPT !.addrs = @ \cup {addr}]
                         ELSE bucket[i]]]
            ELSE IF Len(bucket) >= KValue THEN kad
            ELSE [kad EXCEPT !.routing[b] =
                     Append(bucket, [peer |-> peer, addrs |-> {addr}])]

\* MemoryStore refuses a value of 65 KiB or more (ValueTooLarge).  Its other
\* limit, 1024 records, is out of reach of the runs modelled here.
StoreRejects(record) == "BIG" \in Range(record.value)

\* A query as get_record and put_record create it: its record is none for a
\* GET and, for a PUT, the record put_record publishes; its result is empty
\* until the query ends.
NewQuery(kad, kind, key, record, quorum) ==
    [id |-> Len(kad.queries) + 1, kind |-> kind, key |-> key, record |-> record,
     quorum |-> quorum, result |-> <<>>, deadlinePassed |-> FALSE]

\* kademlia.get_record(&key, Quorum::One): a query is added to the pool; its
\* result is reported by an event of the swarm, when the swarm is polled.
get_record(kad, key, quorum) ==
    [kad EXCEPT !.queries = Append(@, NewQuery(kad, "GET", key, <<>>, quorum))]

\* The expiry put_record gives a record that has none: the time of the call
\* plus the record TTL of the configuration, and Kademlia::new takes the
\* default configuration, whose TTL is 36 hours.
DefaultExpiry == "now + record_ttl"

\* The record as put_record stores it: the publisher is set to the local
\* identity, whatever the caller wrote there.
Stored(record) == [record EXCEPT !.publisher = LocalPeerId]

\* The record as put_record publishes it: the stored record, with the default
\* expiry when it has none.
Published(record) ==
    [Stored(record) EXCEPT !.expires = IF @ = "None" THEN DefaultExpiry ELSE @]

\* put_record with the result of the local store step ignored: the query is
\* started whether or not the record was stored.
put_record_IgnoringStoreError(kad, record, quorum) ==
    [ok |-> TRUE,
     kad |-> [kad EXCEPT
                !.store = IF StoreRejects(record) THEN @
                          ELSE (record.key :> Stored(record)) @@ @,
                !.queries = Append(@, NewQuery(kad, "PUT", record.key,
                                               <<Published(record)>>, quorum))]]

\* kademlia.put_record(record, Quorum::One): the publisher of the record is
\* set to the local identity, then comes the local store step; when it fails
\* nothing else is done and the error is returned; when it succeeds the
\* record is given its expiry and the query that publishes it is added.
put_record(kad, record, quorum) ==
    IF StoreRejects(record)
    THEN [ok |-> FALSE, kad |-> kad]
    ELSE [ok |-> TRUE,
          kad |-> [kad EXCEPT
                     !.store = (record.key :> Stored(record)) @@ @,
                     !.queries = Append(@, NewQuery(kad, "PUT", record.key,
                                                    <<Published(record)>>, quorum))]]

\* ------------------------------------------------------------------ handler.rs
PanicStore == "panicked: Failed to store record locally: ValueTooLarge"

\* What a call of the handler leaves: the Kademlia state, the lines written to
\* standard error, whether it panicked, and the content of output.log.
LogLine == <<"handling a line!">>

Returned(kad, errs) ==
    [kademlia |-> kad, stderr |-> errs, panicked |-> FALSE, log |-> LogLine]

Panicked(kad, errs) ==
    [kademlia |-> kad, stderr |-> errs, panicked |-> TRUE, log |-> LogLine]

\* handle_put with a missing value taken as an empty value.
handle_put_DefaultValue(kad, args) ==
    IF Len(args) < 2 THEN Returned(kad, <<"Expected a key">>)
    ELSE LET record == [key |-> args[2],
                        value |-> IF Len(args) < 3 THEN <<>> ELSE args[3],
                        publisher |-> "None", expires |-> "None"]
             put == put_record(kad, record, QuorumOne)
         IN IF put.ok THEN Returned(put.kad, <<>>)
            ELSE Panicked(put.kad, <<PanicStore>>)

handle_put(kad, args) ==
    IF Len(args) < 2 THEN Returned(kad, <<"Expected a key">>)
    ELSE IF Len(args) < 3 THEN Returned(kad, <<"Expected value">>)
    ELSE LET record == [key |-> args[2], value |-> args[3],
                        publisher |-> "None", expires |-> "None"]
             put == put_record(kad, record, QuorumOne)
         IN IF put.ok THEN Returned(put.kad, <<>>)
            ELSE Panicked(put.kad, <<PanicStore>>)

\* handle_get with the last piece of the line taken as the key.
handle_get_LastPiece(kad, args) ==
    IF Len(args) < 2 THEN Returned(kad, <<"expected a key">>)
    ELSE Returned(get_record(kad, args[Len(args)], QuorumOne), <<>>)

handle_get(kad, args) ==
    IF Len(args) < 2 THEN Returned(kad, <<"expected a key">>)
    ELSE Returned(get_record(kad, args[2], QuorumOne), <<>>)

handle_input_line(kad, line) ==
    LET args == Split(line) IN
    IF args[1] = <<"GET">> THEN handle_get(kad, args)
    ELSE IF args[1] = <<"PUT">> THEN handle_put(kad, args)
    ELSE Returned(kad, <<"Expected GET or PUT">>)

\* ------------------------------------------------------------------ main.rs
\* std::str::from_utf8(..).unwrap(): "BIN" stands for bytes that are not UTF-8.
IsUtf8(bytes) == "BIN" \notin Range(bytes)

PanicUtf8 == "panicked: called Result::unwrap() on an Err value: Utf8Error"

RECURSIVE print_records(_, _, _)
\* The loop of main.rs:88-101 over the records of a successful GET: a line
\* with the key and the value of each record, and the id of the query.
print_records(out, records, id) ==
    IF records = <<>> THEN out
    ELSE LET r == Head(records)
         IN IF IsUtf8(r.key) /\ IsUtf8(r.value)
            THEN print_records(
                     [out EXCEPT !.stdout = Append(@,
                         [line |-> "kad dht: got record", key |-> r.key,
                          value |-> r.value, id |-> id])],
                     Tail(records), id)
            ELSE [out EXCEPT !.stderr = Append(@, PanicUtf8), !.pc = "panicked"]

\* MyBehavior::inject_event(KademliaEvent): what the process prints for the
\* result of a query.  It runs when the swarm is polled and yields the event.
\* The line of a stored record holds the key and nothing else: the id of the
\* query is not printed (id 0, as in every line without one).
inject_kademlia_event(out, event) ==
    IF event.kind = "GetRecordOk"
    THEN print_records(out, event.records, event.id)
    ELSE IF event.kind = "GetRecordErr"
    THEN [out EXCEPT !.stderr = Append(@, "kad dht: failed to get record")]
    ELSE IF event.kind = "PutRecordOk"
    THEN IF IsUtf8(event.key)
         THEN [out EXCEPT !.stdout = Append(@,
                 [line |-> "kad dht: successfully put record", key |-> event.key,
                  value |-> <<>>, id |-> 0])]
         ELSE [out EXCEPT !.stderr = Append(@, PanicUtf8), !.pc = "panicked"]
    ELSE IF event.kind = "PutRecordErr"
    THEN [out EXCEPT !.stderr = Append(@, "kad dht: failed to put record")]
    ELSE out

RECURSIVE add_addresses(_, _)
\* The loop of main.rs:52-58 over the pairs of a discovery event.
add_addresses(kad, list_of_peers) ==
    IF list_of_peers = <<>> THEN kad
    ELSE add_addresses(add_address(kad, Head(list_of_peers).peer,
                                   Head(list_of_peers).addr),
                       Tail(list_of_peers))

\* MyBehavior::inject_event(MdnsEvent): every pair of a Discovered event is
\* handed to add_address; any other event of mDNS is ignored.
inject_mdns_event(kad, event) ==
    IF event.kind = "Discovered" THEN add_addresses(kad, event.list_of_peers)
    ELSE kad

\* main.rs:163-165 prints the first listener address if the swarm already
\* knows one when main reaches the loop.
ListeningLine == [line |-> "listening on", key |-> <<>>, value |-> <<>>, id |-> 0]

Init ==
    /\ stdinKind \in {"pipe", "tty"}
    /\ stdinBuf = <<>>
    /\ stdinEof = "open"
    /\ pc = "running"
    /\ kademlia = [store |-> <<>>, queries |-> <<>>, routing |-> EmptyTable]
    /\ netInbox = {}
    /\ stdout \in {<<>>, <<ListeningLine>>}
    /\ stderr = <<>>
    /\ outputLog = <<>>
    /\ calls = 0
    /\ texts = 0
    /\ linesIn = 0
    /\ argLines = <<>>
    /\ announced = {}
    /\ issuedWith = <<>>

\* The environment writes a text of the set T to stdin.
TypeFrom(T) ==
    /\ stdinEof = "open"
    /\ stdinBuf = <<>>
    /\ texts < MaxCalls
    /\ \E t \in T : stdinBuf' = t
    /\ texts' = texts + 1
    /\ UNCHANGED <<stdinKind, stdinEof, pc, kademlia, netInbox, stdout, stderr,
                   outputLog, calls, linesIn, argLines, announced,
                   issuedWith>>

TypeText == TypeFrom(Texts)

TypeCommand == TypeFrom(Commands)

\* The environment ends the input: the writer of a pipe closes it, the user
\* of a terminal types the end-of-input key, after which more can be typed.
SignalEof ==
    /\ stdinEof = "open"
    /\ calls < MaxCalls
    /\ stdinEof' = IF stdinKind = "pipe" THEN "closed" ELSE "ctrlD"
    /\ UNCHANGED <<stdinKind, stdinBuf, pc, kademlia, netInbox, stdout, stderr,
                   outputLog, calls, texts, linesIn, argLines, announced,
                   issuedWith>>

\* The discovery collaborator sees a peer: the event waits in the swarm.
NetworkEventArrives ==
    /\ pc = "running"
    /\ \E p \in Discoverable \ netInbox : netInbox' = netInbox \cup {p}
    /\ UNCHANGED <<stdinKind, stdinBuf, stdinEof, pc, kademlia, stdout, stderr,
                   outputLog, calls, texts, linesIn, argLines, announced,
                   issuedWith>>

\* Time passes and the deadline of an in-flight query goes by; queries have
\* the same time allowance, so their deadlines go by in the order they started.
DeadlineElapses ==
    /\ pc = "running"
    /\ \E i \in 1..Len(kademlia.queries) :
          /\ ~kademlia.queries[i].deadlinePassed
          /\ \A j \in 1..(i-1) : kademlia.queries[j].deadlinePassed
          /\ kademlia' = [kademlia EXCEPT !.queries[i].deadlinePassed = TRUE]
    /\ UNCHANGED <<stdinKind, stdinBuf, stdinEof, pc, netInbox, stdout, stderr,
                   outputLog, calls, texts, linesIn, argLines, announced,
                   issuedWith>>

Going == "I am going to handle a line right now"
Handled == "just handled a line"

\* One iteration of the loop of main: read_to_string returns at end-of-input
\* with everything written so far, and that text is handed to the handler.
MainLoopIteration ==
    /\ pc = "running"
    /\ stdinEof \in {"ctrlD", "closed"}
    /\ calls < MaxCalls
    /\ LET line == stdinBuf
           res == handle_input_line(kademlia, line)
       IN /\ stdinBuf' = <<>>
          /\ stdinEof' = IF stdinKind = "pipe" THEN "closed" ELSE "open"
          /\ outputLog' = res.log
          /\ kademlia' = res.kademlia
          /\ stderr' = stderr \o <<Going>> \o res.stderr
                          \o (IF res.panicked THEN <<>> ELSE <<Handled>>)
          /\ pc' = IF res.panicked THEN "panicked" ELSE "running"
          /\ calls' = calls + 1
          /\ linesIn' = linesIn + NumLines(line)
          /\ argLines' = Append(argLines, NumNL(line))
          /\ issuedWith' = [n \in 1..Len(res.kademlia.queries) |->
                               IF n <= Len(issuedWith) THEN issuedWith[n]
                               ELSE KnownPeers(kademlia)]
    /\ UNCHANGED <<stdinKind, netInbox, stdout, texts, announced>>

Next ==
    \/ TypeText
    \/ SignalEof
    \/ NetworkEventArrives
    \/ DeadlineElapses
    \/ MainLoopIteration

Spec == Init /\ [][Next]_vars

\* A terminal session.  The process runs whenever it can: nothing but the
\* blocking read of stdin stops the loop of main.
SessionInit == Init /\ stdinKind = "tty"

SessionNext ==
    \/ TypeCommand
    \/ SignalEof
    \/ NetworkEventArrives
    \/ DeadlineElapses
    \/ MainLoopIteration

FairSpec == SessionInit /\ [][SessionNext]_vars /\ WF_vars(MainLoopIteration)

\* ------------------------------------------------------------------ the handler alone
\* handle_input_line is a public function of the crate: it can be handed any
\* text and any Kademlia state.  HandlerSpec starts with a text ready on
\* stdin, its end already signalled, and lets the loop of main run on it.
\* A record in the store, as an earlier PUT a a of this node left it.
SampleRecord ==
    [key |-> <<"a">>, value |-> <<"a">>, publisher |-> LocalPeerId, expires |-> "None"]

SampleQuery ==
    [id |-> 1, kind |-> "GET", key |-> <<"a">>, record |-> <<>>,
     quorum |-> QuorumOne, result |-> <<>>, deadlinePassed |-> FALSE]

\* The routing table with no entry, and the one where p1 has been recorded.
SampleTables ==
    {EmptyTable,
     add_address([routing |-> EmptyTable], "p1", "addr1").routing}

KademliaStates ==
    {[store |-> s, queries |-> q, routing |-> r] :
        s \in {<<>>, (<<"a">> :> SampleRecord)},
        q \in {<<>>, <<SampleQuery>>},
        r \in SampleTables}

\* Lines with a piece after the value of a PUT.
LongLines == {JoinSp(<<<<"PUT">>, <<"a">>, <<"a">>, t>>) : t \in Tokens}

HandlerInit ==
    /\ stdinKind \in {"pipe", "tty"}
    /\ stdinBuf \in Texts \cup LongLines
    /\ stdinEof = (IF stdinKind = "pipe" THEN "closed" ELSE "ctrlD")
    /\ pc = "running"
    /\ kademlia \in KademliaStates
    /\ netInbox = {}
    /\ stdout = <<>>
    /\ stderr = <<>>
    /\ outputLog = <<>>
    /\ calls = 0
    /\ texts = 1
    /\ linesIn = 0
    /\ argLines = <<>>
    /\ announced = {}
    /\ issuedWith = [n \in 1..Len(kademlia.queries) |-> {}]

HandlerSpec == HandlerInit /\ [][MainLoopIteration]_vars

\* ------------------------------------------------------------------ the callbacks of the swarm
\* The two inject_event methods are what a polled swarm calls with the events
\* of mDNS and of Kademlia.  PolledSpec starts after one command on a
\* terminal, GET a or PUT a a, given when the routing table had no entry or
\* when p1 had been discovered, and hands them events.
\* The events of mDNS: lists of one or two (peer, address) pairs.
DiscoveredPairs == [peer : Peers, addr : Addresses]

MdnsEvents ==
    {[kind |-> "Discovered", list_of_peers |-> l] :
        l \in {<<x>> : x \in DiscoveredPairs}
                \cup {<<x, y>> : x \in DiscoveredPairs, y \in DiscoveredPairs}}
    \cup {[kind |-> "Expired", list_of_peers |-> <<x>>] : x \in DiscoveredPairs}

\* The records peers can return for a key: one record, or two from two peers.
RecordValues == {<<"a">>, <<"b">>, <<"BIN">>}

PeerRecords(key) == [peer : {"p1", "p2"}, key : {key}, value : RecordValues]

RecordLists(key) ==
    {<<x>> : x \in PeerRecords(key)}
        \cup {l \in {<<x, y>> : x \in PeerRecords(key), y \in PeerRecords(key)} :
                 l[1].peer # l[2].peer}

\* KademliaEvent::QueryResult for the query q, and an event of another kind.
QueryResults(q) ==
    IF q.kind = "GET"
    THEN {[kind |-> "GetRecordOk", id |-> q.id, key |-> q.key, records |-> rs] :
             rs \in RecordLists(q.key)}
         \cup {[kind |-> "GetRecordErr", id |-> q.id, key |-> q.key, records |-> <<>>]}
    ELSE {[kind |-> k, id |-> q.id, key |-> q.key, records |-> <<>>] :
             k \in {"PutRecordOk", "PutRecordErr"}}

RoutingUpdated == [kind |-> "RoutingUpdated", id |-> 0, key |-> <<>>, records |-> <<>>]

PolledInit ==
    /\ stdinKind = "tty"
    /\ stdinBuf = <<>>
    /\ stdinEof = "open"
    /\ pc = "running"
    /\ kademlia \in
          {handle_input_line([store |-> <<>>, queries |-> <<>>, routing |-> r],
                             line).kademlia :
              r \in SampleTables,
              line \in {<<"GET", SP, "a">>, <<"PUT", SP, "a", SP, "a">>}}
    /\ netInbox = {}
    /\ stdout = <<>>
    /\ stderr = <<Going, Handled>>
    /\ outputLog = LogLine
    /\ calls = 1
    /\ texts = 1
    /\ linesIn = 1
    /\ argLines = <<0>>
    /\ announced = KnownPeers(kademlia)
    /\ issuedWith = <<KnownPeers(kademlia)>>

\* The swarm yields an event of mDNS.
PollMdns ==
    /\ pc = "running"
    /\ \E event \in MdnsEvents :
          /\ kademlia' = inject_mdns_event(kademlia, event)
          /\ announced' = announced \cup
                 (IF event.kind = "Discovered"
                  THEN {event.list_of_peers[i].peer : i \in 1..Len(event.list_of_peers)}
                  ELSE {})
    /\ UNCHANGED <<stdinKind, stdinBuf, stdinEof, pc, netInbox, stdout, stderr,
                   outputLog, calls, texts, linesIn, argLines, issuedWith>>

\* The swarm yields an event of Kademlia: the result of a query in flight, or
\* an event of another kind.
PollKademlia ==
    /\ pc = "running"
    /\ \/ \E n \in 1..Len(kademlia.queries) :
             /\ kademlia.queries[n].result = <<>>
             /\ \E event \in QueryResults(kademlia.queries[n]) :
                   LET out == inject_kademlia_event(
                                  [stdout |-> stdout, stderr |-> stderr, pc |-> pc],
                                  event)
                   IN /\ kademlia' = [kademlia EXCEPT !.queries[n].result = <<event>>]
                      /\ stdout' = out.stdout
                      /\ stderr' = out.stderr
                      /\ pc' = out.pc
       \/ LET out == inject_kademlia_event(
                         [stdout |-> stdout, stderr |-> stderr, pc |-> pc],
                         RoutingUpdated)
          IN /\ kademlia' = kademlia
             /\ stdout' = out.stdout
             /\ stderr' = out.stderr
             /\ pc' = out.pc
    /\ UNCHANGED <<stdinKind, stdinBuf, stdinEof, netInbox, outputLog, calls,
                   texts, linesIn, argLines, announced,
                   issuedWith>>

PolledNext == PollMdns \/ PollKademlia

PolledSpec == PolledInit /\ [][PolledNext]_vars

\* ------------------------------------------------------------------ claims
GET == <<"GET">>
PUT == <<"PUT">>

UsageErrors == {"expected a key", "Expected a key", "Expected value", "Expected GET or PUT"}

\* A handler call is being made on the text waiting on stdin.
HandlerCalled == calls' = calls + 1

\* The line's first piece is neither GET nor PUT, or it is GET with no
\* second piece, or PUT with no second or no third piece.
Malformed(line) ==
    LET t == Split(line)
    IN \/ t[1] \notin {GET, PUT}
       \/ t[1] = GET /\ Len(t) < 2
       \/ t[1] = PUT /\ Len(t) < 3

\* C1: the loop never blocks for ever on one source while the other has work:
\* a waiting discovery event is eventually handled, and a complete command
\* line waiting on stdin is eventually handled.
C1_NoStarvation ==
    /\ (netInbox # {}) ~> (netInbox = {})
    /\ (NL \in Range(stdinBuf)) ~> (stdinBuf = <<>>)

\* C2: a call of the handler on a malformed line reports a usage error, starts
\* no query, and leaves the record store, the routing table and the queries
\* in flight as they were.
C2_UsageErrorNoQuery ==
    [][(HandlerCalled /\ Malformed(stdinBuf)) =>
          /\ \E m \in UsageErrors : stderr' = stderr \o <<Going, m, Handled>>
          /\ kademlia' = kademlia
          /\ stdout' = stdout
          /\ pc' = "running"]_vars

C2_Witness ==
    /\ calls = 1
    /\ "Expected value" \in Range(stderr)
    /\ kademlia.queries = <<SampleQuery>>
    /\ KnownPeers(kademlia) # {}
    /\ DOMAIN kademlia.store # {}

\* C3: while the command input is open no error is fatal: the process is
\* still running after any sequence of commands, events and failures.
C3_NoErrorIsFatal == (stdinEof # "closed") => (pc = "running")

\* The line is a PUT with a key and a value that the record store refuses.
PutStoreFails(line) ==
    LET t == Split(line)
    IN t[1] = PUT /\ Len(t) >= 3 /\
       StoreRejects([key |-> t[2], value |-> t[3], publisher |-> "None",
                     expires |-> "None"])

\* C4: when the local store step of a PUT fails the PUT is aborted at once
\* (no query is started, nothing is stored), the failure is reported as the
\* outcome of that PUT, and the PUT is never tried again.
C4_LocalStoreFailureAborts ==
    /\ [][(HandlerCalled /\ PutStoreFails(stdinBuf)) =>
             /\ kademlia' = kademlia
             /\ stderr' = stderr \o <<Going, PanicStore>>
             /\ pc' = "panicked"]_vars
    /\ [][(pc = "panicked") => (kademlia' = kademlia /\ calls' = calls)]_vars

C4_Witness ==
    /\ pc = "panicked"
    /\ PanicStore \in Range(stderr)
    /\ kademlia.queries = <<SampleQuery>>

\* C5: end-of-input is fatal: once stdin is closed and nothing is left to
\* read, the loop stops and the handler is not called again.
C5_EofStopsTheLoop ==
    [][(stdinEof = "closed" /\ stdinBuf = <<>>) => (calls' = calls)]_vars

\* C6: one command per line: the handler has been called once for each line
\* of the input read so far, and no call was handed a line terminator.
C6_OneCallPerLine ==
    /\ calls = linesIn
    /\ \A i \in 1..Len(argLines) : argLines[i] = 0

\* The lines that report the outcome of a query: the got-record line names
\* the query by its id, the line of a stored record names only the key.
OutcomeOnStdout(q) ==
    \E i \in 1..Len(stdout) :
        IF q.kind = "GET"
        THEN /\ stdout[i].line = "kad dht: got record"
             /\ stdout[i].id = q.id
        ELSE /\ stdout[i].line = "kad dht: successfully put record"
             /\ stdout[i].key = q.key

OutcomeOnStderr(q) ==
    (IF q.kind = "GET" THEN "kad dht: failed to get record"
     ELSE "kad dht: failed to put record") \in Range(stderr)

\* C7: every well-formed GET or PUT eventually has its outcome printed,
\* either the success line or a failure line.
C7_OutcomePrinted ==
    \A n \in 1..MaxCalls :
        (Len(kademlia.queries) >= n) ~>
            (/\ Len(kademlia.queries) >= n
             /\ \/ OutcomeOnStdout(kademlia.queries[n])
                \/ OutcomeOnStderr(kademlia.queries[n]))

\* A PUT of key k was accepted and a GET of k was issued after it.
PutThenGet(i, j) ==
    /\ i < j /\ j <= Len(kademlia.queries)
    /\ kademlia.queries[i].kind = "PUT"
    /\ kademlia.queries[j].kind = "GET"
    /\ kademlia.queries[j].key = kademlia.queries[i].key
    /\ KnownPeers(kademlia) = {}

GotRecordPrinted(i, j) ==
    \E n \in 1..Len(stdout) :
        /\ i <= Len(kademlia.queries)
        /\ kademlia.queries[i].kind = "PUT"
        /\ stdout[n].line = "kad dht: got record"
        /\ stdout[n].id = j
        /\ stdout[n].key = kademlia.queries[i].key
        /\ stdout[n].value = kademlia.queries[i].record[1].value

\* C8: local read-after-write: a GET of k issued after an accepted PUT of k
\* with value v, with no peers, prints the got-record line for k and v.
C8_LocalReadAfterWrite ==
    \A j \in 2..MaxCalls : \A i \in 1..(j-1) :
        PutThenGet(i, j) ~> GotRecordPrinted(i, j)

\* C9: a GET issued while the routing table is empty has failed with
\* RoutingTableEmpty by the end of the step that created it.
C9_EmptyTableFailsAtOnce ==
    \A i \in 1..Len(kademlia.queries) :
        (kademlia.queries[i].kind = "GET" /\ KnownPeers(kademlia) = {})
            => kademlia.queries[i].result = <<"RoutingTableEmpty">>

\* C10: a query whose deadline has gone by with no response received ends in
\* the failure state QueryTimeout.
C10_DeadlineEndsQuery ==
    \A n \in 1..MaxCalls :
        (Len(kademlia.queries) >= n /\ kademlia.queries[n].deadlinePassed
            /\ kademlia.queries[n].result = <<>>)
        ~> (Len(kademlia.queries) >= n
              /\ kademlia.queries[n].result = <<"QueryTimeout">>)

\* The query q has ended with records that peers returned before its deadline.
AnsweredInTime(q) ==
    /\ q.result # <<>>
    /\ q.result[1].kind = "GetRecordOk"
    /\ ~q.deadlinePassed

PeersShown(line) == IF "peer" \in DOMAIN line THEN {line.peer} ELSE {}

\* The query q has ended with records of several distinct values.
SeveralValues(q) ==
    /\ q.result # <<>>
    /\ q.result[1].kind = "GetRecordOk"
    /\ Cardinality({q.result[1].records[k].value :
                        k \in 1..Len(q.result[1].records)}) > 1

\* C12: when a GET has observed several distinct values for its key, every
\* observed (peer, record) pair is in what the process prints for that query:
\* for each peer that returned a record there is a got-record line of the
\* query with that record and that peer.
C12_AllPairsSurfaced ==
    \A n \in 1..Len(kademlia.queries) :
        SeveralValues(kademlia.queries[n]) =>
            \A k \in 1..Len(kademlia.queries[n].result[1].records) :
                \E i \in 1..Len(stdout) :
                    /\ stdout[i].line = "kad dht: got record"
                    /\ stdout[i].id = kademlia.queries[n].id
                    /\ stdout[i].key = kademlia.queries[n].result[1].records[k].key
                    /\ stdout[i].value = kademlia.queries[n].result[1].records[k].value
                    /\ kademlia.queries[n].result[1].records[k].peer
                           \in PeersShown(stdout[i])

\* The peers of a bucket.
BucketPeers(bucket) == {bucket[i].peer : i \in 1..Len(bucket)}

\* The bucket of the peer p in the table of kad.
BucketOf(kad, p) == kad.routing[BucketIndex(Distance(LocalPeerId, p))]

\* The Kademlia state after the discovery event that announces p at addr.
AfterDiscovery(p, addr) ==
    inject_mdns_event(kademlia,
        [kind |-> "Discovered", list_of_peers |-> <<[peer |-> p, addr |-> addr]>>])

\* C13: every bucket holds at most KValue entries; and the discovery of a new
\* peer whose bucket is full puts the new peer in the bucket and removes
\* exactly one of the entries that were there (the claim: the least recently
\* seen one).
C13_BucketsBoundedAndEvicting ==
    /\ \A b \in DOMAIN kademlia.routing : Len(kademlia.routing[b]) <= KValue
    /\ \A p \in Peers \ ({LocalPeerId} \cup KnownPeers(kademlia)) :
          \A addr \in Addresses :
              Len(BucketOf(kademlia, p)) = KValue =>
                  /\ p \in BucketPeers(BucketOf(AfterDiscovery(p, addr), p))
                  /\ Len(BucketOf(AfterDiscovery(p, addr), p)) = KValue
                  /\ Cardinality(BucketPeers(BucketOf(kademlia, p))
                         \ BucketPeers(BucketOf(AfterDiscovery(p, addr), p))) = 1

\* The peers of a bucket, in the order of its entries.
PeerSeq(bucket) == [i \in 1..Len(bucket) |-> bucket[i].peer]

\* C14: every entry of the routing table is in the bucket that the distance
\* of its peer to the local identity determines (so in no other bucket), and
\* no bucket has two entries for one peer; the discovery of a peer that has
\* an entry adds no entry and removes none: it adds the address to the entry.
C14_OneBucketOneEntry ==
    /\ \A b \in DOMAIN kademlia.routing :
          \A i \in 1..Len(kademlia.routing[b]) :
              /\ b = BucketIndex(Distance(LocalPeerId, kademlia.routing[b][i].peer))
              /\ \A j \in 1..Len(kademlia.routing[b]) :
                    kademlia.routing[b][j].peer = kademlia.routing[b][i].peer => j = i
    /\ \A p \in KnownPeers(kademlia) : \A addr \in Addresses :
          \A b \in DOMAIN kademlia.routing :
              /\ PeerSeq(AfterDiscovery(p, addr).routing[b]) = PeerSeq(kademlia.routing[b])
              /\ \A i \in 1..Len(kademlia.routing[b]) :
                    AfterDiscovery(p, addr).routing[b][i].addrs =
                        IF kademlia.routing[b][i].peer = p
                        THEN kademlia.routing[b][i].addrs \cup {addr}
                        ELSE kademlia.routing[b][i].addrs

\* Peers in two buckets; p1 has been discovered twice, at two addresses.
C14_Witness ==
    /\ \E i \in 1..Len(BucketOf(kademlia, "p1")) :
          /\ BucketOf(kademlia, "p1")[i].peer = "p1"
          /\ BucketOf(kademlia, "p1")[i].addrs = Addresses
    /\ "p2" \in KnownPeers(kademlia)

\* C16: the local identity has no entry in the routing table, whatever the
\* discovery events announce, the local identity included.
C16_LocalIdentityNotInTable == LocalPeerId \notin KnownPeers(kademlia)

\* A discovery event has announced the local identity, and peers are recorded.
C16_Witness ==
    /\ LocalPeerId \in announced
    /\ KnownPeers(kademlia) # {}

\* C17: every query that is started reaches a terminal state (its result is
\* set), and a query that has reached one is left as it is from then on.
C17_QueriesEndOnce ==
    /\ \A n \in 1..MaxCalls :
          (Len(kademlia.queries) >= n)
              ~> (Len(kademlia.queries) >= n /\ kademlia.queries[n].result # <<>>)
    /\ [][\A n \in 1..Len(kademlia.queries) :
             kademlia.queries[n].result # <<>>
                 => kademlia'.queries[n] = kademlia.queries[n]]_vars

\* The query that a call of get_record or put_record adds to those in flight.
Started(kind, key, record) ==
    [id |-> Len(kademlia.queries) + 1, kind |-> kind, key |-> key,
     record |-> record, quorum |-> 1, result |-> <<>>, deadlinePassed |-> FALSE]

\* The record of a PUT line: its key and value, no publisher and no expiry.
LineRecord(t) ==
    [key |-> t[2], value |-> t[3], publisher |-> "None", expires |-> "None"]

\* A call of the handler on a well-formed GET line: one GET query of quorum 1
\* for the second piece is started, the queries before it and the record
\* store are left as they were, and the pieces after the key play no part.
GetStartsOneQuery ==
    LET t == Split(stdinBuf)
    IN (HandlerCalled /\ t[1] = GET /\ Len(t) >= 2) =>
          /\ kademlia'.queries = Append(kademlia.queries, Started("GET", t[2], <<>>))
          /\ kademlia'.store = kademlia.store

\* A call of the handler starts at most one query and changes none in flight.
AtMostOneQuery ==
    HandlerCalled =>
        /\ Len(kademlia'.queries) <= Len(kademlia.queries) + 1
        /\ SubSeq(kademlia'.queries, 1, Len(kademlia.queries)) = kademlia.queries

\* C20 as claimed: a call of the handler starts at most one query; a
\* well-formed GET line starts exactly one GET query of quorum 1 for its key
\* and leaves the record store unchanged; a well-formed PUT line starts
\* exactly one PUT query of quorum 1 whose record has the line's key and
\* value, no publisher and no expiry; later pieces are ignored.
C20_OneQueryPerLine ==
    [][/\ AtMostOneQuery
       /\ GetStartsOneQuery
       /\ LET t == Split(stdinBuf)
          IN (HandlerCalled /\ t[1] = PUT /\ Len(t) >= 3) =>
                kademlia'.queries =
                    Append(kademlia.queries, Started("PUT", t[2], <<LineRecord(t)>>))]_vars

\* The record of a PUT line as it is published: its key and value, the local
\* identity as publisher and the default expiry.
PublishedLineRecord(t) ==
    [key |-> t[2], value |-> t[3], publisher |-> LocalPeerId,
     expires |-> DefaultExpiry]

\* C20 as amended: the same, but the record of the PUT query has the local
\* identity as publisher and the default expiry, and a well-formed PUT line
\* whose record the local store refuses starts no query.
C20_OneQueryPerAcceptedLine ==
    [][/\ AtMostOneQuery
       /\ GetStartsOneQuery
       /\ LET t == Split(stdinBuf)
          IN (HandlerCalled /\ t[1] = PUT /\ Len(t) >= 3) =>
                kademlia'.queries =
                    IF PutStoreFails(stdinBuf) THEN kademlia.queries
                    ELSE Append(kademlia.queries,
                                Started("PUT", t[2], <<PublishedLineRecord(t)>>))]_vars

\* A PUT line has been handled after a query was in flight: that query is as
\* it was and one PUT query of quorum 1 follows it, whose record has the
\* line's key and value, the local identity as publisher and an expiry.
C20_Witness ==
    /\ calls = 1
    /\ Len(kademlia.queries) = 2
    /\ kademlia.queries[1] = SampleQuery
    /\ kademlia.queries[2].kind = "PUT"
    /\ kademlia.queries[2].quorum = 1
    /\ kademlia.queries[2].record = <<PublishedLineRecord(<<PUT, <<"a">>, <<"a">>>>)>>

====
